---- MODULE Spec2Model ----
(***************************************************************************)
(* Model of src/main.py: a pygame magnetic field simulator.                *)
(*                                                                         *)
(* Number representation.                                                  *)
(*  - Magnet strengths are IEEE-754 binary64 values.  They are kept exact: *)
(*    a strength is a record [neg, hi, lo] standing for                    *)
(*    (+/-)(hi * 2^29 + lo) * 2^-55, and FAdd / FSub round the exact       *)
(*    result to 53 significant bits, ties to even, as Python's float + and *)
(*    - do.  The literal 0.1 is 3602879701896397 * 2^-55.                  *)
(*  - Coordinates are fixed point, in units of 1/PosScale of a pixel.      *)
(*  - Angles are whole degrees, multiples of AngleStep; math.sin, math.cos *)
(*    are tabulated in units of 1/TrigScale and math.atan2 returns the     *)
(*    nearest multiple of AngleStep (atan2(0, 0) = 0 as in Python).        *)
(***************************************************************************)
EXTENDS Integers, Sequences, FiniteSets, TLC

VARIABLES
    magnets,    \* MagnetManager.magnets / Animation.magnets: sequence of Magnet records
    ferrite,    \* the FerriteDipole attached to the manager
    elements,   \* Display.elements, in attachment order
    anim,       \* Animation.index and Animation.next
    screen,     \* the polylines produced by the last MagnetManager.draw
    err,        \* the exception the last operation raised, "none" otherwise
    calls,      \* number of operations executed so far
    start,      \* history: the strengths the run started with
    log,        \* history: the steps of the last Display.update, in order
    traced,     \* history: the magnets as the last MagnetManager.draw read them
    before,     \* history: magnets and ferrite as they were before the last operation
    last,       \* history: the last operation
    running     \* the flag of the loop of Display.run

vars == <<magnets, ferrite, elements, anim, screen, err, calls, start, log, traced, before, last, running>>

-----------------------------------------------------------------------------
(* Bounds of the model *)

\* Frames of Display.run that are explored
MaxFrames == 52
\* Calls of Animation.draw that are explored
MaxCalls == 104
\* Steps of one field-line trace that are explored
MaxTrace == 40

-----------------------------------------------------------------------------
(* Fixed point and trigonometry *)

PosScale == 10
TrigScale == 1000
AngleStep == 15
FieldScale == 100000
ForceScale == 10000

Abs(n) == IF n < 0 THEN -n ELSE n

\* n / d rounded to the nearest integer, halves away from zero
RoundDiv(n, d) == IF n >= 0 THEN (2 * n + d) \div (2 * d) ELSE -((2 * (-n) + d) \div (2 * d))

\* n / d truncated towards zero
TruncDiv(n, d) == IF n >= 0 THEN n \div d ELSE -((-n) \div d)

SinTable == <<0, 259, 500, 707, 866, 966, 1000>>

\* math.sin of an angle in degrees, times TrigScale
Sin(deg) ==
    LET a == deg % 360
        q == IF a <= 90 THEN a ELSE IF a <= 180 THEN 180 - a ELSE IF a <= 270 THEN a - 180 ELSE 360 - a
        v == SinTable[(q \div AngleStep) + 1]
    IN  IF a <= 180 THEN v ELSE -v

\* math.cos of an angle in degrees, times TrigScale
Cos(deg) == Sin(deg + 90)

\* length * trig value, back in position units
Scaled(len, trig) == RoundDiv(len * trig, TrigScale)

\* math.atan2(y, x) in degrees, to the nearest multiple of AngleStep, in (-180, 180]
Atan2(y, x) ==
    IF x = 0 /\ y = 0 THEN 0
    ELSE
    LET big == IF Abs(x) > Abs(y) THEN Abs(x) ELSE Abs(y)
        k   == (big \div 100000) + 1
        ax  == Abs(x) \div k
        ay  == Abs(y) \div k
        t   == ay * TrigScale
        q   == IF t < 132 * ax THEN 0
               ELSE IF t < 414 * ax THEN 15
               ELSE IF t < 767 * ax THEN 30
               ELSE IF t < 1303 * ax THEN 45
               ELSE IF t < 2414 * ax THEN 60
               ELSE IF t < 7596 * ax THEN 75
               ELSE 90
    IN  IF x >= 0 THEN (IF y >= 0 THEN q ELSE -q)
        ELSE IF y >= 0 THEN 180 - q
        ELSE IF q = 0 THEN 180 ELSE q - 180

RECURSIVE SqrtSearch(_, _, _)
SqrtSearch(n, lo, hi) ==
    IF hi - lo <= 1 THEN lo
    ELSE LET mid == (lo + hi) \div 2
         IN  IF mid * mid <= n THEN SqrtSearch(n, mid, hi) ELSE SqrtSearch(n, lo, mid)

\* math.sqrt, rounded down to a whole position unit
Sqrt(n) == SqrtSearch(n, 0, 46341)

-----------------------------------------------------------------------------
(* binary64 arithmetic on strengths *)

Limb == 536870912  \* 2^29

FZero == [neg |-> FALSE, hi |-> 0, lo |-> 0]
\* the int 10 (10 * 2^55 units)
FTen == [neg |-> FALSE, hi |-> 671088640, lo |-> 0]
\* the float literal 0.1 = 0x1.999999999999ap-4
FTenth == [neg |-> FALSE, hi |-> 6710886, lo |-> 214748365]
\* the int 5, used as a starting strength
FFive == [neg |-> FALSE, hi |-> 335544320, lo |-> 0]

RECURSIVE Pow2(_)
Pow2(n) == IF n = 0 THEN 1 ELSE 2 * Pow2(n - 1)

\* number of low bits that do not fit the 53-bit significand of hi * 2^29 + lo
RECURSIVE DropBits(_, _)
DropBits(hi, s) == IF s = 7 \/ hi < Pow2(24 + s) THEN s ELSE DropBits(hi, s + 1)

\* round a magnitude to 53 significant bits, ties to even
FRound(hi, lo) ==
    LET s    == DropBits(hi, 0)
        m    == Pow2(s)
        r    == lo % m
        q    == lo - r
        up   == s > 0 /\ (2 * r > m \/ (2 * r = m /\ (lo \div m) % 2 = 1))
        lo2  == IF up THEN q + m ELSE q
    IN  IF lo2 >= Limb THEN [hi |-> hi + 1, lo |-> lo2 - Limb] ELSE [hi |-> hi, lo |-> lo2]

MagLess(a, b) == a.hi < b.hi \/ (a.hi = b.hi /\ a.lo < b.lo)

\* exact a + b of two magnitudes, then rounded
MagAdd(a, b) ==
    LET l == a.lo + b.lo
        c == IF l >= Limb THEN 1 ELSE 0
    IN  FRound(a.hi + b.hi + c, l - c * Limb)

\* exact a - b of two magnitudes with a >= b, then rounded
MagSub(a, b) ==
    LET w == IF a.lo < b.lo THEN 1 ELSE 0
    IN  FRound(a.hi - b.hi - w, a.lo - b.lo + w * Limb)

Signed(n, m) == [neg |-> n /\ (m.hi > 0 \/ m.lo > 0), hi |-> m.hi, lo |-> m.lo]

\* float a + b
FAdd(a, b) ==
    IF a.neg = b.neg THEN Signed(a.neg, MagAdd(a, b))
    ELSE IF MagLess(a, b) THEN Signed(b.neg, MagSub(b, a))
    ELSE Signed(a.neg, MagSub(a, b))

\* float a - b
FSub(a, b) == FAdd(a, [neg |-> ~b.neg, hi |-> b.hi, lo |-> b.lo])

\* a > 0
FPositive(a) == ~a.neg /\ (a.hi > 0 \/ a.lo > 0)

\* a <= 0
FNonPositive(a) == ~FPositive(a)

\* a <= 10
FAtMostTen(a) == a.neg \/ a.hi < FTen.hi \/ (a.hi = FTen.hi /\ a.lo = 0)

\* a strength as a fixed-point number in units of 2^-10, for the field and force sums
StrengthFixed(a) == IF a.neg THEN -(a.hi \div 65536) ELSE a.hi \div 65536

-----------------------------------------------------------------------------
(* Magnet *)

\* pixels to position units
Px(n) == n * PosScale

FIELD_RESOLUTION == 1
DefaultStrength == FTen
DefaultRadius == 8
DefaultSeparation == 40
DefaultFieldLines == 12
BoundsWidth == 400
BoundsHeight == 400

\* the pole computed from a centre, an angle and a separation; sign is +1 for south
PoleOf(x, y, angle, separation, sign) ==
    <<x + sign * Scaled(separation \div 2, Sin(angle)),
      y - sign * Scaled(separation \div 2, Cos(angle))>>

\* Magnet.__init__; position, radius and separation are in position units
Magnet(position, angle, strength, radius, separation, field_lines) ==
    [x |-> position[1], y |-> position[2],
     angle |-> angle,
     separation |-> separation,
     south |-> PoleOf(position[1], position[2], angle, separation, 1),
     north |-> PoleOf(position[1], position[2], angle, separation, -1),
     strength |-> strength,
     radius |-> radius,
     field_lines |-> field_lines]

Dist2(p, q) == (p[1] - q[1]) * (p[1] - q[1]) + (p[2] - q[2]) * (p[2] - q[2])

\* Magnet.in_bounds
InBounds(point) ==
    /\ 0 <= point[1] /\ point[1] < Px(BoundsWidth)
    /\ 0 <= point[2] /\ point[2] < Px(BoundsHeight)

\* Magnet.near_pole
NearPole(point, ms) ==
    \E k \in 1..Len(ms) :
        LET radius == ms[k].radius - Px(1)
        IN  \E pole \in {ms[k].south, ms[k].north} :
                Dist2(point, pole) < radius * radius

\* variant: the validity test forgets the poles
ValidateInBoundsOnly(point, ms) == InBounds(point)

\* Magnet.validate_field_position
ValidateFieldPosition(point, ms) == InBounds(point) /\ ~NearPole(point, ms)

\* one pole's term of calculate_field_direction; i = 0 is the south pole
FieldTerm(point, m, i) ==
    LET pole == IF i = 0 THEN m.south ELSE m.north
        dx   == point[1] - pole[1]
        dy   == point[2] - pole[2]
        d2   == dx * dx + dy * dy
        ps   == IF i = 0 THEN -StrengthFixed(m.strength) ELSE StrengthFixed(m.strength)
        c    == TruncDiv(ps * FieldScale, d2)
        d    == Sqrt(d2)
    IN  IF d2 = 0 THEN <<0, 0>>
        ELSE <<TruncDiv(c * dx, d), TruncDiv(c * dy, d)>>

RECURSIVE FieldSum(_, _, _)
FieldSum(point, ms, k) ==
    IF k > Len(ms) THEN <<0, 0>>
    ELSE LET s == FieldTerm(point, ms[k], 0)
             n == FieldTerm(point, ms[k], 1)
             r == FieldSum(point, ms, k + 1)
         IN  <<s[1] + n[1] + r[1], s[2] + n[2] + r[2]>>

\* Magnet.calculate_field_direction, in degrees
CalculateFieldDirection(point, ms) ==
    LET f == FieldSum(point, ms, 1) IN Atan2(f[2], f[1])

\* the while loop of draw_field_lines: the validity test, then one step
RECURSIVE TraceLoop(_, _, _)
TraceLoop(points, offset, ms) ==
    LET cur == points[Len(points)]
    IN  IF ~ValidateFieldPosition(cur, ms)
        THEN [points |-> points, complete |-> TRUE, drawn |-> Len(points) > 1]
        ELSE IF Len(points) > MaxTrace
        THEN [points |-> points, complete |-> FALSE, drawn |-> Len(points) > 1]
        ELSE LET direction == CalculateFieldDirection(cur, ms) + offset
                 nxt == <<cur[1] + Scaled(Px(FIELD_RESOLUTION), Cos(direction)),
                          cur[2] + Scaled(Px(FIELD_RESOLUTION), Sin(direction))>>
             IN  TraceLoop(Append(points, nxt), offset, ms)

\* the seed of line i around a pole
SeedPoint(m, pole, i) ==
    LET angle == i * (360 \div m.field_lines)
    IN  <<pole[1] + Scaled(m.radius, Cos(angle)), pole[2] + Scaled(m.radius, Sin(angle))>>

\* the lines of one pole, i = from .. field_lines - 1
RECURSIVE PoleLines(_, _, _, _, _)
PoleLines(m, pole, offset, ms, i) ==
    IF i >= m.field_lines THEN <<>>
    ELSE <<TraceLoop(<<SeedPoint(m, pole, i)>>, offset, ms)>>
            \o PoleLines(m, pole, offset, ms, i + 1)

\* Magnet.draw_field_lines: the exception it raises and the polylines it traced
DrawFieldLines(m, ms) ==
    IF m.field_lines = 0
    THEN [err |-> "ZeroDivisionError", lines |-> <<>>]
    ELSE [err |-> "none",
          lines |-> PoleLines(m, m.north, 0, ms, 0) \o PoleLines(m, m.south, 180, ms, 0)]

-----------------------------------------------------------------------------
(* MagnetManager *)

IsOn(m) == FPositive(m.strength)

\* on_magnets: the magnets whose lines MagnetManager.draw traces
OnMagnets(ms) == SelectSeq(ms, IsOn)

\* variant: draw_field_lines is handed every attached magnet
TraceAgainstAll(ms) == ms

\* the list of magnets MagnetManager.draw hands to draw_field_lines
TraceAgainst(ms) == OnMagnets(ms)

\* the lines drawn so far and the outcome of the next draw_field_lines call
Extend(acc, one) == [err |-> one.err, lines |-> acc.lines \o one.lines]

\* the for loop of MagnetManager.draw from the k-th active magnet; an exception ends it
RECURSIVE DrawEach(_, _, _, _)
DrawEach(on, against, k, acc) ==
    IF k > Len(on) \/ acc.err # "none" THEN acc
    ELSE DrawEach(on, against, k + 1, Extend(acc, DrawFieldLines(on[k], against)))

\* MagnetManager.draw
ManagerDraw(ms) ==
    DrawEach(OnMagnets(ms), TraceAgainst(ms), 1, [err |-> "none", lines |-> <<>>])

-----------------------------------------------------------------------------
(* FerriteDipole *)

DefaultLength == 80

\* FerriteDipole.__init__
FerriteDipole(position, length) ==
    [position |-> position,
     length |-> length,
     angle |-> 0,
     north |-> <<position[1], position[2] - length \div 2>>,
     south |-> <<position[1], position[2] + length \div 2>>]

\* int(self.length/2), in pixels
HalfLength(f) == (f.length \div 2) \div PosScale

\* the sample point at offset r pixels along the body
SamplePoint(f, r) ==
    <<f.position[1] + Scaled(Px(r), Cos(f.angle)),
      f.position[2] + Scaled(Px(r), Sin(f.angle))>>

\* the two inner loops of update_moment at the sample point p, from pole number k
\* (south and north of each magnet in turn), with the force summed so far
RECURSIVE PoleLoop(_, _, _, _)
PoleLoop(p, ms, k, acc) ==
    IF k > 2 * Len(ms) \/ acc.abort THEN acc
    ELSE LET m        == ms[(k + 1) \div 2]
             pole     == IF k % 2 = 1 THEN m.south ELSE m.north
             strength == IF pole = m.south THEN StrengthFixed(m.strength)
                         ELSE -StrengthFixed(m.strength)
             dx       == pole[1] - p[1]
             dy       == pole[2] - p[2]
             force    == TruncDiv(strength * ForceScale, dx * dx + dy * dy)
             angle    == Atan2(dy, dx)
         IN  IF dx = 0 /\ dy = 0 THEN [acc EXCEPT !.abort = TRUE]
             ELSE PoleLoop(p, ms, k + 1,
                           [abort |-> FALSE,
                            fx |-> acc.fx + Scaled(force, Cos(angle)),
                            fy |-> acc.fy + Scaled(force, Sin(angle))])

\* the outer loop of update_moment from the sample at offset r
RECURSIVE MomentLoop(_, _, _, _)
MomentLoop(f, ms, r, acc) ==
    IF r > HalfLength(f) \/ acc.abort THEN acc
    ELSE MomentLoop(f, ms, r + 2, PoleLoop(SamplePoint(f, r), ms, 1, acc))

\* the force update_moment sums, or its early return
Moment(f, ms) == MomentLoop(f, ms, -HalfLength(f), [abort |-> FALSE, fx |-> 0, fy |-> 0])

\* the assignments of update_moment after the loops
Reorient(f, angle) ==
    [f EXCEPT !.angle = angle,
              !.north = <<f.position[1] + Scaled(f.length \div 2, Cos(angle)),
                          f.position[2] + Scaled(f.length \div 2, Sin(angle))>>,
              !.south = <<f.position[1] - Scaled(f.length \div 2, Cos(angle)),
                          f.position[2] - Scaled(f.length \div 2, Sin(angle))>>]

\* variant: the early return comes too late, after the assignments
UpdateMomentLate(f, ms) ==
    LET sum == Moment(f, ms) IN Reorient(f, Atan2(sum.fy, sum.fx))

\* variant: a zero force leaves the ferrite as it is
UpdateMomentKeepOnZero(f, ms) ==
    LET sum == Moment(f, ms)
    IN  IF sum.abort \/ (sum.fx = 0 /\ sum.fy = 0) THEN f ELSE Reorient(f, Atan2(sum.fy, sum.fx))

\* FerriteDipole.update_moment
UpdateMoment(f, ms) ==
    LET sum == Moment(f, ms)
    IN  IF sum.abort THEN f ELSE Reorient(f, Atan2(sum.fy, sum.fx))

-----------------------------------------------------------------------------
(* three_magnet_simulation *)

TransferStep == FTenth

\* the strength changes of Animation.draw
Transfer(ms, a) ==
    LET i  == a.index + 1
        n  == a.next + 1
        m1 == [ms EXCEPT ![i].strength = FSub(ms[i].strength, TransferStep)]
        m2 == [m1 EXCEPT ![n].strength = FAdd(m1[n].strength, TransferStep)]
    IN  IF FNonPositive(m2[i].strength)
        THEN [magnets |-> [m2 EXCEPT ![i].strength = FZero, ![n].strength = FTen],
              anim |-> [index |-> a.next, next |-> (a.next + 1) % Len(ms)]]
        ELSE [magnets |-> m2, anim |-> a]

\* Animation.draw
AnimationDraw(ms, f, a) ==
    LET t == Transfer(ms, a)
    IN  [magnets |-> t.magnets, anim |-> t.anim, ferrite |-> UpdateMoment(f, t.magnets)]

XOffset == Scaled(Px(100), Sin(120))

\* the magnets three_magnet_simulation attaches, with the given strengths
SceneMagnets(s1, s2, s3) ==
    <<Magnet(<<Px(200), Px(125)>>, 90, s1, Px(DefaultRadius), Px(DefaultSeparation), DefaultFieldLines),
      Magnet(<<Px(200) + XOffset, Px(275)>>, 225, s2, Px(DefaultRadius), Px(DefaultSeparation), DefaultFieldLines),
      Magnet(<<Px(200) - XOffset, Px(275)>>, -45, s3, Px(DefaultRadius), Px(DefaultSeparation), DefaultFieldLines)>>

SceneFerrite == FerriteDipole(<<Px(200), Px(200)>>, Px(DefaultLength))

\* variant: the Animation is attached before the manager
SceneElementsAnimationFirst == <<"animation", "manager", "magnet", "magnet", "magnet", "ferrite">>

\* Display.attach
DisplayAttach(els, e) == Append(els, e)

\* Display.elements after three_magnet_simulation: MagnetManager.__init__ attaches the
\* manager, attach_magnet each magnet, attach_ferrite the ferrite, and the Animation
\* is attached last
SceneElements ==
    DisplayAttach(DisplayAttach(DisplayAttach(DisplayAttach(DisplayAttach(DisplayAttach(<<>>,
        "manager"), "magnet"), "magnet"), "magnet"), "ferrite"), "animation")

Strengths(ms) == [k \in 1..Len(ms) |-> ms[k].strength]

-----------------------------------------------------------------------------
(* Display *)

\* the frame after MagnetManager.draw ended with d
AfterManager(fs, d) ==
    [fs EXCEPT !.screen = d.lines, !.err = d.err,
               !.traced = fs.magnets,
               !.log = Append(fs.log, "trace")]

\* the frame after Animation.draw ended with a
AfterAnimation(fs, a) ==
    [fs EXCEPT !.magnets = a.magnets, !.anim = a.anim, !.ferrite = a.ferrite,
               !.log = fs.log \o <<"animate", "moment">>]

\* element.draw(screen) for one element of Display.elements, on the frame so far;
\* Magnet.draw and FerriteDipole.draw only paint
ElementDraw(fs, e) ==
    IF e = "manager" THEN AfterManager(fs, ManagerDraw(fs.magnets))
    ELSE IF e = "animation" THEN AfterAnimation(fs, AnimationDraw(fs.magnets, fs.ferrite, fs.anim))
    ELSE [fs EXCEPT !.log = Append(fs.log, e)]

\* the for loop of Display.update from element k; an exception ends it
RECURSIVE DrawElements(_, _, _)
DrawElements(fs, els, k) ==
    IF k > Len(els) \/ fs.err # "none" THEN fs
    ELSE DrawElements(ElementDraw(fs, els[k]), els, k + 1)

\* pygame.display.flip(), reached when no element raised
Flip(fs) == IF fs.err = "none" THEN [fs EXCEPT !.log = Append(fs.log, "flip")] ELSE fs

\* Display.update
DisplayUpdate(ms, f, a, els) ==
    Flip(DrawElements([magnets |-> ms, ferrite |-> f, anim |-> a, screen |-> <<>>,
                       err |-> "none", traced |-> <<>>, log |-> <<"grid">>], els, 1))

-----------------------------------------------------------------------------
(* The program: three_magnet_simulation(display); display.run() *)

Init ==
    /\ magnets = SceneMagnets(DefaultStrength, DefaultStrength, FZero)
    /\ ferrite = SceneFerrite
    /\ elements = SceneElements
    /\ anim = [index |-> 0, next |-> 1]
    /\ screen = <<>>
    /\ err = "none"
    /\ calls = 0
    /\ start = Strengths(magnets)
    /\ log = <<>>
    /\ traced = <<>>
    /\ before = [magnets |-> magnets, ferrite |-> ferrite]
    /\ last = "init"
    /\ running = TRUE

\* one iteration of the loop of Display.run: the events, update, tick
RunIteration ==
    /\ running
    /\ err = "none"
    /\ calls < MaxFrames
    /\ \E fs \in {DisplayUpdate(magnets, ferrite, anim, elements)} :
           /\ magnets' = fs.magnets
           /\ ferrite' = fs.ferrite
           /\ anim' = fs.anim
           /\ screen' = fs.screen
           /\ err' = fs.err
           /\ log' = fs.log
           /\ traced' = fs.traced
    /\ calls' = calls + 1
    /\ before' = [magnets |-> magnets, ferrite |-> ferrite]
    /\ last' = "update"
    /\ \E quit \in BOOLEAN : running' = ~quit
    /\ UNCHANGED <<elements, start>>

\* the end of Display.run: pygame.quit()
Quit ==
    /\ ~running
    /\ last # "quit"
    /\ last' = "quit"
    /\ UNCHANGED <<magnets, ferrite, elements, anim, screen, err, calls, start, log, traced, before, running>>

Next == RunIteration \/ Quit

Spec == Init /\ [][Next]_vars

-----------------------------------------------------------------------------
(* Animation.draw called repeatedly on three magnets with given starting strengths *)

StartStrengths ==
    {<<FTen, FZero, FZero>>, <<FTen, FTen, FZero>>, <<FFive, FZero, FTen>>, <<FZero, FFive, FFive>>}

InitAnim ==
    /\ \E s \in StartStrengths :
        /\ magnets = SceneMagnets(s[1], s[2], s[3])
        /\ start = s
    /\ ferrite = SceneFerrite
    /\ elements = <<"animation">>
    /\ anim = [index |-> 0, next |-> 1]
    /\ screen = <<>>
    /\ err = "none"
    /\ calls = 0
    /\ log = <<>>
    /\ traced = <<>>
    /\ before = [magnets |-> magnets, ferrite |-> ferrite]
    /\ last = "init"
    /\ running = TRUE

AnimationCall ==
    /\ calls < MaxCalls
    /\ \E a \in {AnimationDraw(magnets, ferrite, anim)} :
           /\ magnets' = a.magnets
           /\ ferrite' = a.ferrite
           /\ anim' = a.anim
    /\ calls' = calls + 1
    /\ before' = [magnets |-> magnets, ferrite |-> ferrite]
    /\ last' = "animation"
    /\ UNCHANGED <<elements, screen, err, start, log, traced, running>>

NextAnim == AnimationCall

SpecAnim == InitAnim /\ [][NextAnim]_vars


-----------------------------------------------------------------------------
(* Operations on a hand-built manager, ferrite or magnet *)

\* the constructor defaults of Magnet, with a position in pixels
NewMagnet(x, y, angle, strength, field_lines) ==
    Magnet(<<Px(x), Px(y)>>, angle, strength, Px(DefaultRadius), Px(DefaultSeparation), field_lines)

\* magnet.strength = s, as Animation.draw assigns it
SetStrength ==
    /\ err = "none"
    /\ \E k \in 1..Len(magnets), s \in {FZero, FTen} :
        /\ magnets[k].strength # s
        /\ magnets' = [magnets EXCEPT ![k].strength = s]
    /\ before' = [magnets |-> magnets, ferrite |-> ferrite]
    /\ last' = "strength"
    /\ UNCHANGED <<ferrite, elements, anim, screen, err, calls, start, log, traced, running>>

\* ferrite.update_moment(magnets)
FerriteUpdate ==
    /\ \E f \in {UpdateMoment(ferrite, magnets)} : ferrite' = f
    /\ before' = [magnets |-> magnets, ferrite |-> ferrite]
    /\ last' = "update_moment"
    /\ UNCHANGED <<magnets, elements, anim, screen, err, calls, start, log, traced, running>>

\* manager.draw(screen)
ManagerDrawCall ==
    /\ err = "none"
    /\ \E d \in {ManagerDraw(magnets)} :
        /\ screen' = d.lines
        /\ err' = d.err
    /\ traced' = magnets
    /\ before' = [magnets |-> magnets, ferrite |-> ferrite]
    /\ last' = "draw"
    /\ UNCHANGED <<magnets, ferrite, elements, anim, calls, start, log, running>>

\* magnet.x, magnet.y = p by an external actor
SetPosition ==
    /\ \E k \in 1..Len(magnets), x \in {Px(100), Px(200)}, y \in {Px(125), Px(275)} :
        /\ <<magnets[k].x, magnets[k].y>> # <<x, y>>
        /\ magnets' = [magnets EXCEPT ![k].x = x, ![k].y = y]
    /\ before' = [magnets |-> magnets, ferrite |-> ferrite]
    /\ last' = "position"
    /\ UNCHANGED <<ferrite, elements, anim, screen, err, calls, start, log, traced, running>>

\* magnet.angle = a by an external actor
SetAngle ==
    /\ \E k \in 1..Len(magnets), a \in {0, 90, 225, -45} :
        /\ magnets[k].angle # a
        /\ magnets' = [magnets EXCEPT ![k].angle = a]
    /\ before' = [magnets |-> magnets, ferrite |-> ferrite]
    /\ last' = "angle"
    /\ UNCHANGED <<ferrite, elements, anim, screen, err, calls, start, log, traced, running>>

\* magnet.separation = s by an external actor
SetSeparation ==
    /\ \E k \in 1..Len(magnets), sep \in {Px(20), Px(DefaultSeparation)} :
        /\ magnets[k].separation # sep
        /\ magnets' = [magnets EXCEPT ![k].separation = sep]
    /\ before' = [magnets |-> magnets, ferrite |-> ferrite]
    /\ last' = "separation"
    /\ UNCHANGED <<ferrite, elements, anim, screen, err, calls, start, log, traced, running>>

\* the variables the hand-built scenarios leave at their initial values
Idle ==
    /\ elements = <<>>
    /\ anim = [index |-> 0, next |-> 1]
    /\ screen = <<>>
    /\ err = "none"
    /\ calls = 0
    /\ start = Strengths(magnets)
    /\ log = <<>>
    /\ traced = <<>>
    /\ before = [magnets |-> magnets, ferrite |-> ferrite]
    /\ last = "init"
    /\ running = TRUE

-----------------------------------------------------------------------------
(* A FerriteDipole and a list of magnets: update_moment and strength changes *)

FerriteLists ==
    {<<>>,
     <<NewMagnet(202, 220, 0, FTen, DefaultFieldLines)>>,
     <<NewMagnet(200, 125, 90, FTen, DefaultFieldLines)>>,
     <<NewMagnet(200, 125, 90, FZero, DefaultFieldLines), NewMagnet(202, 220, 0, FZero, DefaultFieldLines)>>,
     <<NewMagnet(140, 204, 90, FTen, DefaultFieldLines), NewMagnet(200, 260, 0, FZero, DefaultFieldLines)>>}

InitFerrite ==
    /\ magnets \in FerriteLists
    /\ \E len \in {Px(8), Px(DefaultLength)} : ferrite = FerriteDipole(<<Px(200), Px(200)>>, len)
    /\ Idle

NextFerrite == FerriteUpdate \/ SetStrength

SpecFerrite == InitFerrite /\ [][NextFerrite]_vars

-----------------------------------------------------------------------------
(* A MagnetManager with attached magnets: draw and strength changes *)

TraceScenes ==
    {<<NewMagnet(30, 30, 0, FTen, 4), NewMagnet(38, 70, 0, FZero, 2)>>,
     <<NewMagnet(30, 30, 0, FTen, 4), NewMagnet(60, 30, 0, FTen, 4)>>,
     <<NewMagnet(380, 380, 90, FTen, 8)>>,
     <<NewMagnet(20, 200, 0, FTen, 0)>>,
     <<NewMagnet(20, 200, 0, FTen, 1), NewMagnet(200, 20, 90, FZero, 0)>>,
     <<NewMagnet(200, 30, 90, FTen, 2), NewMagnet(200, 50, 270, FTen, 3), NewMagnet(214, 40, 0, FZero, 1)>>}

InitTrace ==
    /\ magnets \in TraceScenes
    /\ ferrite = SceneFerrite
    /\ Idle

NextTrace == ManagerDrawCall \/ SetStrength

SpecTrace == InitTrace /\ [][NextTrace]_vars

-----------------------------------------------------------------------------
(* A Magnet whose fields an external actor assigns *)

InitMagnet ==
    /\ \E x \in {Px(100), Px(200)}, a \in {0, 90} :
        magnets = <<NewMagnet(x, 125, a, FTen, DefaultFieldLines)>>
    /\ ferrite = SceneFerrite
    /\ Idle

NextMagnet == SetPosition \/ SetAngle \/ SetSeparation

SpecMagnet == InitMagnet /\ [][NextMagnet]_vars

-----------------------------------------------------------------------------
(* Claims *)

\* position of step x in a frame's log, 0 when it did not happen
Pos(seq, x) == IF \E i \in 1..Len(seq) : seq[i] = x THEN CHOOSE i \in 1..Len(seq) : seq[i] = x ELSE 0

Precedes(seq, a, b) == Pos(seq, a) > 0 /\ Pos(seq, b) > 0 /\ Pos(seq, a) < Pos(seq, b)

\* C1 as stated: in every frame the animation step comes first, then update_moment,
\* then the trace, then the flip, and the lines are traced from the strengths the
\* frame's own animation step produced.
C1_AnimateThenTrace ==
    log # <<>> =>
        /\ Precedes(log, "animate", "moment")
        /\ Precedes(log, "moment", "trace")
        /\ Precedes(log, "trace", "flip")
        /\ Strengths(traced) = Strengths(magnets)

\* C1 amended: in every frame the trace comes first, then the animation step, then
\* update_moment, then the flip, and the lines are traced from the magnets as they
\* were when the frame began, before the frame's own animation step.
C1_TraceThenAnimate ==
    log # <<>> =>
        /\ Precedes(log, "trace", "animate")
        /\ Precedes(log, "animate", "moment")
        /\ Precedes(log, "moment", "flip")
        /\ traced = before.magnets

\* C1 witness: a second frame was presented and its lines were traced from strengths
\* that differ from the ones its animation step left.
C1_Witness ==
    /\ calls >= 2
    /\ Pos(log, "flip") > 0
    /\ Strengths(traced) # Strengths(magnets)

\* C3 as stated: from strengths (10, 0, 0) the index has not advanced in the first 99
\* calls of Animation.draw, and after exactly 100 calls the strengths are (0, 10, 0)
\* with index 1 and next 2.
C3_HundredCalls ==
    start = <<FTen, FZero, FZero>> =>
        /\ calls <= 99 => anim.index = 0
        /\ calls = 100 =>
            /\ Strengths(magnets) = <<FZero, FTen, FZero>>
            /\ anim = [index |-> 1, next |-> 2]

\* C4 as stated: after any number of calls of Animation.draw every strength lies in
\* [0, 10], for every starting assignment within [0, 10].
C4_StrengthsInRange ==
    \A k \in 1..Len(magnets) :
        ~magnets[k].strength.neg /\ FAtMostTen(magnets[k].strength)

\* the offsets update_moment samples the body at
SampleOffsets(f) == {r \in -HalfLength(f)..HalfLength(f) : (r + HalfLength(f)) % 2 = 0}

\* some sample point lies exactly on a pole of a magnet of the list
Coincides(f, ms) ==
    \E r \in SampleOffsets(f), k \in 1..Len(ms) :
        SamplePoint(f, r) \in {ms[k].south, ms[k].north}

\* the force summed over all samples and poles is exactly (0, 0)
ZeroForce(f, ms) ==
    \E sum \in {Moment(f, ms)} : ~sum.abort /\ sum.fx = 0 /\ sum.fy = 0

\* C5 as stated: an update_moment call whose summed force is (0, 0) leaves the
\* orientation and both endpoints as they were and raises nothing.
C5_ZeroForceUnchanged ==
    (last = "update_moment" /\ ZeroForce(before.ferrite, before.magnets)) =>
        /\ ferrite.angle = before.ferrite.angle
        /\ ferrite.north = before.ferrite.north
        /\ ferrite.south = before.ferrite.south
        /\ err = "none"

\* C5 amended: an update_moment call whose summed force is (0, 0) sets the orientation
\* to 0 and the endpoints to position +/- (length/2, 0), and raises nothing.
C5_ZeroForceFacesEast ==
    (last = "update_moment" /\ ZeroForce(before.ferrite, before.magnets)) =>
        /\ ferrite.angle = 0
        /\ ferrite.north = <<ferrite.position[1] + ferrite.length \div 2, ferrite.position[2]>>
        /\ ferrite.south = <<ferrite.position[1] - ferrite.length \div 2, ferrite.position[2]>>
        /\ err = "none"

\* C5 witness: a ferrite that had turned away from 0 was updated with every magnet
\* at strength 0.
C5_Witness ==
    /\ last = "update_moment"
    /\ ZeroForce(before.ferrite, before.magnets)
    /\ before.magnets # <<>>
    /\ before.ferrite.angle # 0

\* C6 as stated: the stored poles of every magnet equal the poles computed from its
\* current position, angle and separation.
C6_PolesFresh ==
    \A k \in 1..Len(magnets) :
        LET m == magnets[k]
        IN  /\ m.south = PoleOf(m.x, m.y, m.angle, m.separation, 1)
            /\ m.north = PoleOf(m.x, m.y, m.angle, m.separation, -1)

\* C7 as stated: drawing the lines of an active magnet whose field-line count is 0
\* raises no error.
C7_ZeroLinesNoError ==
    (\E k \in 1..Len(traced) : IsOn(traced[k]) /\ traced[k].field_lines = 0) => err = "none"

\* the lines the active magnets of a list emit
RECURSIVE LineCount(_, _)
LineCount(ms, k) ==
    IF k > Len(ms) THEN 0
    ELSE (IF IsOn(ms[k]) THEN 2 * ms[k].field_lines ELSE 0) + LineCount(ms, k + 1)

\* C2 as stated: no traced line continues from a point within radius - 1 of a pole of
\* any attached magnet, active or inactive.
C2_InactiveBlocks ==
    \A i \in 1..Len(screen) :
        \A j \in 1..(Len(screen[i].points) - 1) : ~NearPole(screen[i].points[j], traced)

\* C2 amended: only the active magnets are obstacles.  No traced line continues from a
\* point within radius - 1 of a pole of an active magnet; a line that ended inside the
\* bounds ended within radius - 1 of a pole of an active magnet; and a draw that raised
\* nothing traced field_lines lines from each pole of each active magnet and none else.
C2_OnlyActiveBlocks ==
    /\ \A i \in 1..Len(screen) :
        LET pts == screen[i].points
        IN  /\ \A j \in 1..(Len(pts) - 1) : ~NearPole(pts[j], OnMagnets(traced))
            /\ (screen[i].complete /\ InBounds(pts[Len(pts)]))
                    => NearPole(pts[Len(pts)], OnMagnets(traced))
    /\ err = "none" => Len(screen) = LineCount(traced, 1)

\* C2 witness: a drawn line continued from a point within radius - 1 of a pole of an
\* attached magnet of strength 0.
C2_Witness ==
    \E k \in 1..Len(traced), i \in 1..Len(screen) :
        /\ ~IsOn(traced[k])
        /\ screen[i].drawn
        /\ \E j \in 1..(Len(screen[i].points) - 1) : NearPole(screen[i].points[j], <<traced[k]>>)

\* C8: in every traced polyline every point but the last is in bounds and not within
\* radius - 1 of a pole of the magnets handed to draw_field_lines, the last point of a
\* finished trace fails that test, the polyline has at least 2 points exactly when its
\* seed passes the test, and it is drawn exactly when it has at least 2 points.
C8_TestBeforeEveryStep ==
    \A i \in 1..Len(screen) :
        LET pts  == screen[i].points
            ms   == TraceAgainst(traced)
        IN  /\ \A j \in 1..(Len(pts) - 1) : InBounds(pts[j]) /\ ~NearPole(pts[j], ms)
            /\ screen[i].complete => (~InBounds(pts[Len(pts)]) \/ NearPole(pts[Len(pts)], ms))
            /\ (Len(pts) >= 2) <=> (InBounds(pts[1]) /\ ~NearPole(pts[1], ms))
            /\ screen[i].drawn <=> (Len(pts) >= 2)

\* C8 witness: one draw produced a finished polyline of several points and a
\* polyline whose seed failed the test, left at 1 point and not drawn.
C8_Witness ==
    \E i, j \in 1..Len(screen) :
        /\ screen[i].complete /\ Len(screen[i].points) >= 3 /\ screen[i].drawn
        /\ Len(screen[j].points) = 1 /\ ~screen[j].drawn

\* C9: an update_moment call in which a sample point lies exactly on a pole of a magnet
\* of the list leaves orientation and endpoints unchanged and raises nothing.
C9_CoincidenceLeavesFerrite ==
    (last = "update_moment" /\ Coincides(before.ferrite, before.magnets)) =>
        /\ ferrite = before.ferrite
        /\ err = "none"

\* C9 witness: the call returned early after a non-zero force had been summed.
C9_Witness ==
    /\ last = "update_moment"
    /\ Coincides(before.ferrite, before.magnets)
    /\ \E sum \in {Moment(before.ferrite, before.magnets)} :
            sum.abort /\ (sum.fx # 0 \/ sum.fy # 0)

\* C10 as stated: in every state the endpoints of the ferrite are
\* position +/- (length/2)(cos orientation, sin orientation).
C10_EndpointsFollowOrientation ==
    /\ ferrite.north = <<ferrite.position[1] + Scaled(ferrite.length \div 2, Cos(ferrite.angle)),
                         ferrite.position[2] + Scaled(ferrite.length \div 2, Sin(ferrite.angle))>>
    /\ ferrite.south = <<ferrite.position[1] - Scaled(ferrite.length \div 2, Cos(ferrite.angle)),
                         ferrite.position[2] - Scaled(ferrite.length \div 2, Sin(ferrite.angle))>>

====
